---- MODULE Spec2Model ----
(***************************************************************************)
(* Session state machine of the Phillips-curve human coding interface     *)
(* (src/coding_interface.py): the Streamlit session state, the resume     *)
(* ("Load Session") protocol, Save & Continue and the navigation buttons. *)
(* Every action is one script run of main() triggered by one widget event.*)
(* Indices are 0-based as in the Python source; TLA+ sequences are        *)
(* 1-based, so coding_df.iloc[idx] is coding_df[idx + 1].                 *)
(***************************************************************************)
EXTENDS Integers, Sequences, FiniteSets, TLC

VARIABLES
    current_index,      \* st.session_state.current_index
    results,            \* st.session_state.results: list of dicts
    coded_ids,          \* st.session_state.coded_ids: set of coding_id
    widget_version,     \* st.session_state.widget_version
    locked_coder_name,  \* st.session_state.locked_coder_name
    name_input,         \* value of the "Your Name" text input
    coding_df,          \* the coding_id column of the active catalog
    shown,              \* what the Load Session handler displayed last
    now,                \* datetime.now()
    rendered_results,   \* st.session_state.results as the sidebar of the page
                        \* on display read it (lines 197-209)
    last                \* the last widget event and its inputs

vars == <<current_index, results, coded_ids, widget_version, locked_coder_name,
          name_input, coding_df, shown, now, rendered_results, last>>

session == <<current_index, results, coded_ids, widget_version, locked_coder_name>>

(***************************************************************************)
(* Bounds of the model.                                                    *)
(***************************************************************************)
N == 2              \* length of the longest catalog
MaxRows == 2        \* rows of the longest resume file
MaxVersion == 2     \* successful Load Sessions in one behaviour

(***************************************************************************)
(* Values.                                                                 *)
(***************************************************************************)
None == "None"                  \* Python None
NaN == "NaN"                    \* pandas missing value
TypedNames == {"alice"}         \* names the annotator may type
FileNames == {"alice", "bob"}   \* coder_name cells of a resume file
FileIds == 1..(N + 1)           \* coding_id cells; N + 1 is in no catalog
FileClasses == {"moderate"}     \* classification cells of a resume file
NotesInputs == {"", "n"}        \* texts typed in the notes area
RadioInputs == {"steep", "none"} \* options picked in the classification radio

categories == <<"steep", "flat", "moderate", "none">>

\* Mutation: only the id column is required.
required_cols_id_only == {"coding_id"}

required_cols == {"coding_id", "coder_name", "classification"}

Range(s) == {s[i] : i \in DOMAIN s}

(***************************************************************************)
(* Resume files, as the DataFrame pd.read_csv makes of them: the set of    *)
(* column names and the rows, each row a dict over those columns.          *)
(***************************************************************************)
ExportCols == {"coding_id", "coder_name", "classification", "notes", "coded_at"}

Cell(c, id, name, cls) ==
    CASE c = "coding_id" -> id
      [] c = "coder_name" -> name
      [] c = "classification" -> cls
      [] c = "notes" -> NaN
      [] c = "coded_at" -> 0
      [] OTHER -> "x"

Row(cols, id, name, cls) == [c \in cols |-> Cell(c, id, name, cls)]

Rows(cols) == {Row(cols, id, name, cls) : id \in FileIds, name \in FileNames, cls \in FileClasses}

RowSeqs(cols, n) == UNION {[1..k -> Rows(cols)] : k \in 0..n}

DataFrame(cols, rows) == [columns |-> cols, rows |-> rows]

MalformedHeaders ==
    {cols \in SUBSET ExportCols : {"notes", "coded_at"} \subseteq cols /\ cols # ExportCols}

ResumeFiles ==
    {DataFrame(ExportCols, rows) : rows \in RowSeqs(ExportCols, MaxRows)}
    \cup {DataFrame(cols, <<Row(cols, 1, "bob", "moderate")>>) : cols \in MalformedHeaders}
    \cup {DataFrame({}, <<>>)}

Catalogs == {[i \in 1..n |-> i] : n \in {0, N}}

(***************************************************************************)
(* validate_resume_csv                                                     *)
(***************************************************************************)
Msg(kind, missing, n) == [kind |-> kind, missing |-> missing, n |-> n]

NoMsg == Msg("none", {}, 0)

column(df, c) == {df.rows[i][c] : i \in DOMAIN df.rows}

\* Mutation: the "no match" check is left out.
validate_resume_csv_accepts_no_match(resume_df, df) ==
    IF ~(required_cols \subseteq resume_df.columns)
    THEN [is_valid |-> FALSE,
          message |-> Msg("missing_columns", required_cols \ resume_df.columns, 0),
          matching_ids |-> {}]
    ELSE LET resume_ids == column(resume_df, "coding_id")
             coding_ids == Range(df)
             matching_ids == resume_ids \cap coding_ids
             unmatched_ids == resume_ids \ coding_ids
         IN  IF Cardinality(unmatched_ids) > 0
             THEN [is_valid |-> TRUE,
                   message |-> Msg("warning", {}, Cardinality(unmatched_ids)),
                   matching_ids |-> matching_ids]
             ELSE [is_valid |-> TRUE,
                   message |-> Msg("validated", {}, Cardinality(matching_ids)),
                   matching_ids |-> matching_ids]

\* Mutation: the warning counts the ids that match.
validate_resume_csv_counts_matching(resume_df, df) ==
    IF ~(required_cols \subseteq resume_df.columns)
    THEN [is_valid |-> FALSE,
          message |-> Msg("missing_columns", required_cols \ resume_df.columns, 0),
          matching_ids |-> {}]
    ELSE LET resume_ids == column(resume_df, "coding_id")
             coding_ids == Range(df)
             matching_ids == resume_ids \cap coding_ids
             unmatched_ids == resume_ids \ coding_ids
         IN  IF Cardinality(matching_ids) = 0
             THEN [is_valid |-> FALSE, message |-> Msg("no_match", {}, 0),
                   matching_ids |-> {}]
             ELSE IF Cardinality(unmatched_ids) > 0
             THEN [is_valid |-> TRUE,
                   message |-> Msg("warning", {}, Cardinality(matching_ids)),
                   matching_ids |-> matching_ids]
             ELSE [is_valid |-> TRUE,
                   message |-> Msg("validated", {}, Cardinality(matching_ids)),
                   matching_ids |-> matching_ids]

validate_resume_csv(resume_df, df) ==
    IF ~(required_cols \subseteq resume_df.columns)
    THEN [is_valid |-> FALSE,
          message |-> Msg("missing_columns", required_cols \ resume_df.columns, 0),
          matching_ids |-> {}]
    ELSE LET resume_ids == column(resume_df, "coding_id")
             coding_ids == Range(df)
             matching_ids == resume_ids \cap coding_ids
             unmatched_ids == resume_ids \ coding_ids
         IN  IF Cardinality(matching_ids) = 0
             THEN [is_valid |-> FALSE, message |-> Msg("no_match", {}, 0),
                   matching_ids |-> {}]
             ELSE IF Cardinality(unmatched_ids) > 0
             THEN [is_valid |-> TRUE,
                   message |-> Msg("warning", {}, Cardinality(unmatched_ids)),
                   matching_ids |-> matching_ids]
             ELSE [is_valid |-> TRUE,
                   message |-> Msg("validated", {}, Cardinality(matching_ids)),
                   matching_ids |-> matching_ids]

(***************************************************************************)
(* get_previous_coding and the pieces of the handlers of main().           *)
(***************************************************************************)
total_arguments == Len(coding_df)

coder_name == IF locked_coder_name # None THEN locked_coder_name ELSE name_input

\* Mutation: the script goes on without a coder name.
Ready_unchecked == TRUE

\* "if not coder_name: st.stop()": nothing below the name input is rendered
Ready == coder_name # ""

\* The sidebar raises, and the script run ends there, when st.progress gets a
\* value above 1.0 (lines 187-189) and when coder_name.lower() is called on
\* the NaN of an empty cell (lines 197-199).
sidebar_raises ==
    \/ total_arguments > 0 /\ Cardinality(coded_ids) > total_arguments
    \/ results # <<>> /\ coder_name = NaN

\* The script run gets past the sidebar's progress section.
Rendered == Ready /\ ~sidebar_raises

Browsing == Rendered /\ current_index < total_arguments

coding_id == coding_df[current_index + 1]

\* Mutation: the rows are not filtered.
valid_results_unfiltered(resume_df, matching_ids) == resume_df.rows

valid_results(resume_df, matching_ids) ==
    SelectSeq(resume_df.rows, LAMBDA r : r["coding_id"] \in matching_ids)

\* Mutation: the name comes from the last row kept.
resume_coder_name_last_row(valid, typed) ==
    IF "coder_name" \in DOMAIN valid[Len(valid)] THEN valid[Len(valid)]["coder_name"] ELSE typed

resume_coder_name(valid, typed) ==
    IF "coder_name" \in DOMAIN valid[1] THEN valid[1]["coder_name"] ELSE typed

\* Mutation: the test of the loop is inverted (first coded item).
first_uncoded_inverted(df, coded) ==
    IF \E idx \in 0..(Len(df) - 1) : df[idx + 1] \in coded
    THEN CHOOSE idx \in 0..(Len(df) - 1) :
             /\ df[idx + 1] \in coded
             /\ \A j \in 0..(idx - 1) : df[j + 1] \notin coded
    ELSE Len(df) - 1

\* Mutation: with every item coded the cursor goes past the last item.
first_uncoded_past_end(df, coded) ==
    IF \E idx \in 0..(Len(df) - 1) : df[idx + 1] \notin coded
    THEN CHOOSE idx \in 0..(Len(df) - 1) :
             /\ df[idx + 1] \notin coded
             /\ \A j \in 0..(idx - 1) : df[j + 1] \in coded
    ELSE Len(df)

first_uncoded(df, coded) ==
    IF \E idx \in 0..(Len(df) - 1) : df[idx + 1] \notin coded
    THEN CHOOSE idx \in 0..(Len(df) - 1) :
             /\ df[idx + 1] \notin coded
             /\ \A j \in 0..(idx - 1) : df[j + 1] \in coded
    ELSE Len(df) - 1

\* Mutation: the judgment is stamped with the name in the input.
new_result_typed_name(id, locked, classification, notes, at) ==
    [coding_id |-> id,
     coder_name |-> name_input,
     classification |-> classification,
     notes |-> notes,
     coded_at |-> at]

new_result(id, locked, classification, notes, at) ==
    [coding_id |-> id,
     coder_name |-> locked,
     classification |-> classification,
     notes |-> notes,
     coded_at |-> at]

\* Mutation: append only.
upsert_append(rs, result) == Append(rs, result)

upsert(rs, result) ==
    IF \E i \in DOMAIN rs : rs[i]["coding_id"] = result["coding_id"]
    THEN LET existing_idx == CHOOSE i \in DOMAIN rs :
                 /\ rs[i]["coding_id"] = result["coding_id"]
                 /\ \A j \in 1..(i - 1) : rs[j]["coding_id"] # result["coding_id"]
         IN  [rs EXCEPT ![existing_idx] = result]
    ELSE Append(rs, result)

\* A widget event: the button clicked; for Save the item and the values of the
\* classification and notes widgets; for Load Session the uploaded file and
\* the locked coder name the handler found on entry.
Event(op, id, cls, notes, file, locked) ==
    [op |-> op, id |-> id, classification |-> cls, notes |-> notes,
     file |-> file, locked |-> locked]

Click(op) == Event(op, 0, "", "", <<>>, None)

Loaded(op, file) == Event(op, 0, "", "", <<file>>, locked_coder_name)

Shown(kind, message, warning, loaded) ==
    [kind |-> kind, message |-> message, warning |-> warning, loaded |-> loaded]

NoShow == Shown("none", NoMsg, FALSE, 0)

(***************************************************************************)
(* Init: initialize_session_state on the first run, with a catalog loaded. *)
(***************************************************************************)
Init ==
    /\ current_index = 0
    /\ results = <<>>
    /\ coded_ids = {}
    /\ widget_version = 0
    /\ locked_coder_name = None
    /\ name_input = ""
    /\ coding_df \in Catalogs
    /\ shown = NoShow
    /\ now = 0
    /\ rendered_results = <<>>
    /\ last = Click("init")

(***************************************************************************)
(* The annotator types a name; the input is replaced by a disabled one     *)
(* once the name is locked.                                                *)
(***************************************************************************)
TypeName(name) ==
    /\ locked_coder_name = None
    /\ name_input' = name
    /\ shown' = NoShow
    /\ last' = Click("type")
    /\ rendered_results' = results
    /\ UNCHANGED <<session, coding_df, now>>

(***************************************************************************)
(* "Load Session" button, clicked with resume_file in the uploader.         *)
(***************************************************************************)
\* Mutation: the rows kept are added to the store.
LoadSession_appends(resume_file) ==
    /\ Rendered
    /\ LET resume_df == resume_file
           v == validate_resume_csv(resume_df, coding_df)
           valid == valid_results(resume_df, v.matching_ids)
       IN  IF resume_df.columns = {}
           THEN \* pd.read_csv raises EmptyDataError; "except Exception" reports it
                /\ shown' = Shown("exception", NoMsg, FALSE, 0)
                /\ last' = Loaded("load_error", resume_file)
                /\ UNCHANGED session
           ELSE IF ~v.is_valid
           THEN /\ shown' = Shown("error", v.message, FALSE, 0)
                /\ last' = Loaded("load_rejected", resume_file)
                /\ UNCHANGED session
           ELSE /\ widget_version < MaxVersion
                /\ results' = results \o valid
                /\ coded_ids' = {valid[i]["coding_id"] : i \in DOMAIN valid}
                /\ locked_coder_name' =
                       IF Len(valid) > 0 THEN resume_coder_name(valid, coder_name)
                       ELSE locked_coder_name
                /\ widget_version' = widget_version + 1
                /\ current_index' = first_uncoded(coding_df, coded_ids')
                /\ shown' = Shown("success", v.message, v.message.kind = "warning", Len(valid))
                /\ last' = Loaded("load_ok", resume_file)
    /\ rendered_results' = results'
    /\ UNCHANGED <<name_input, coding_df, now>>

\* Mutation: the widget version is not incremented.
LoadSession_same_version(resume_file) ==
    /\ Rendered
    /\ LET resume_df == resume_file
           v == validate_resume_csv(resume_df, coding_df)
           valid == valid_results(resume_df, v.matching_ids)
       IN  IF resume_df.columns = {}
           THEN \* pd.read_csv raises EmptyDataError; "except Exception" reports it
                /\ shown' = Shown("exception", NoMsg, FALSE, 0)
                /\ last' = Loaded("load_error", resume_file)
                /\ UNCHANGED session
           ELSE IF ~v.is_valid
           THEN /\ shown' = Shown("error", v.message, FALSE, 0)
                /\ last' = Loaded("load_rejected", resume_file)
                /\ UNCHANGED session
           ELSE /\ widget_version < MaxVersion
                /\ results' = valid
                /\ coded_ids' = {valid[i]["coding_id"] : i \in DOMAIN valid}
                /\ locked_coder_name' =
                       IF Len(valid) > 0 THEN resume_coder_name(valid, coder_name)
                       ELSE locked_coder_name
                /\ widget_version' = widget_version
                /\ current_index' = first_uncoded(coding_df, coded_ids')
                /\ shown' = Shown("success", v.message, v.message.kind = "warning", Len(valid))
                /\ last' = Loaded("load_ok", resume_file)
    /\ rendered_results' = results'
    /\ UNCHANGED <<name_input, coding_df, now>>

LoadSession(resume_file) ==
    /\ Rendered
    /\ LET resume_df == resume_file
           v == validate_resume_csv(resume_df, coding_df)
           valid == valid_results(resume_df, v.matching_ids)
       IN  IF resume_df.columns = {}
           THEN \* pd.read_csv raises EmptyDataError; "except Exception" reports it
                /\ shown' = Shown("exception", NoMsg, FALSE, 0)
                /\ last' = Loaded("load_error", resume_file)
                /\ UNCHANGED session
           ELSE IF ~v.is_valid
           THEN /\ shown' = Shown("error", v.message, FALSE, 0)
                /\ last' = Loaded("load_rejected", resume_file)
                /\ UNCHANGED session
           ELSE /\ widget_version < MaxVersion
                /\ results' = valid
                /\ coded_ids' = {valid[i]["coding_id"] : i \in DOMAIN valid}
                /\ locked_coder_name' =
                       IF Len(valid) > 0 THEN resume_coder_name(valid, coder_name)
                       ELSE locked_coder_name
                /\ widget_version' = widget_version + 1
                /\ current_index' = first_uncoded(coding_df, coded_ids')
                /\ shown' = Shown("success", v.message, v.message.kind = "warning", Len(valid))
                /\ last' = Loaded("load_ok", resume_file)
    /\ rendered_results' = results'
    /\ UNCHANGED <<name_input, coding_df, now>>

(***************************************************************************)
(* Navigation and Save & Continue.                                         *)
(***************************************************************************)
Nav(op, idx) ==
    /\ current_index' = idx
    /\ shown' = NoShow
    /\ last' = Click(op)
    /\ rendered_results' = results
    /\ UNCHANGED <<results, coded_ids, widget_version, locked_coder_name,
                   name_input, coding_df, now>>

\* Mutation: the button is not disabled on the first item.
Previous_not_disabled ==
    /\ Browsing
    /\ Nav("previous", current_index - 1)

Previous ==
    /\ Browsing
    /\ current_index # 0
    /\ Nav("previous", current_index - 1)

\* Mutation: the cursor is not moved.
Save_stays(classification, notes) ==
    /\ Browsing
    /\ locked_coder_name' =
           IF locked_coder_name = None THEN coder_name ELSE locked_coder_name
    /\ LET result == new_result(coding_id, locked_coder_name', classification, notes, now)
       IN  results' = upsert(results, result)
    /\ coded_ids' = coded_ids \cup {coding_id}
    /\ current_index' = current_index
    /\ shown' = NoShow
    /\ last' = Event("save", coding_id, classification, notes, <<>>, None)
    \* st.rerun() is called only when the cursor moves (lines 447-449); without
    \* it the sidebar on display is the one rendered before the handler ran
    /\ rendered_results' =
           IF current_index < total_arguments - 1 THEN results' ELSE results
    /\ UNCHANGED <<widget_version, name_input, coding_df, now>>

\* Mutation: the cursor is moved on the last item too.
Save_always_advances(classification, notes) ==
    /\ Browsing
    /\ locked_coder_name' =
           IF locked_coder_name = None THEN coder_name ELSE locked_coder_name
    /\ LET result == new_result(coding_id, locked_coder_name', classification, notes, now)
       IN  results' = upsert(results, result)
    /\ coded_ids' = coded_ids \cup {coding_id}
    /\ current_index' = current_index + 1
    /\ shown' = NoShow
    /\ last' = Event("save", coding_id, classification, notes, <<>>, None)
    \* st.rerun() is called only when the cursor moves (lines 447-449); without
    \* it the sidebar on display is the one rendered before the handler ran
    /\ rendered_results' =
           IF current_index < total_arguments - 1 THEN results' ELSE results
    /\ UNCHANGED <<widget_version, name_input, coding_df, now>>

Save(classification, notes) ==
    /\ Browsing
    /\ locked_coder_name' =
           IF locked_coder_name = None THEN coder_name ELSE locked_coder_name
    /\ LET result == new_result(coding_id, locked_coder_name', classification, notes, now)
       IN  results' = upsert(results, result)
    /\ coded_ids' = coded_ids \cup {coding_id}
    /\ current_index' =
           IF current_index < total_arguments - 1 THEN current_index + 1
           ELSE current_index
    /\ shown' = NoShow
    /\ last' = Event("save", coding_id, classification, notes, <<>>, None)
    \* st.rerun() is called only when the cursor moves (lines 447-449); without
    \* it the sidebar on display is the one rendered before the handler ran
    /\ rendered_results' =
           IF current_index < total_arguments - 1 THEN results' ELSE results
    /\ UNCHANGED <<widget_version, name_input, coding_df, now>>

Skip ==
    /\ Browsing
    /\ current_index # total_arguments - 1
    /\ Nav("skip", current_index + 1)

\* Mutation: the cursor is set to the number typed, not to the index before it.
Go_one_based(jump_to) ==
    /\ Browsing
    /\ Nav("go", jump_to)

Go(jump_to) ==
    /\ Browsing
    /\ Nav("go", jump_to - 1)

\* Mutation: the button goes to the last item.
ReturnToStart_to_last ==
    /\ Rendered
    /\ ~(current_index < total_arguments)
    /\ Nav("return", total_arguments - 1)

ReturnToStart ==
    /\ Rendered
    /\ ~(current_index < total_arguments)
    /\ Nav("return", 0)

Next ==
    \/ \E name \in TypedNames \cup {""} : TypeName(name)
    \/ \E resume_file \in ResumeFiles : LoadSession(resume_file)
    \/ Previous
    \/ \E classification \in RadioInputs, notes \in NotesInputs : Save(classification, notes)
    \/ Skip
    \/ \E jump_to \in 1..total_arguments : Go(jump_to)
    \/ ReturnToStart

Spec == Init /\ [][Next]_vars

(***************************************************************************)
(* A session in which no resume file is loaded: saving and navigation.     *)
(***************************************************************************)
NextSave ==
    \/ \E name \in TypedNames \cup {""} : TypeName(name)
    \/ Previous
    \/ \E classification \in RadioInputs, notes \in NotesInputs : Save(classification, notes)
    \/ Skip
    \/ \E jump_to \in 1..total_arguments : Go(jump_to)
    \/ ReturnToStart

SpecSave == Init /\ [][NextSave]_vars

(***************************************************************************)
(* A session of resume imports with longer files, in which a file can hold *)
(* an accepted row next to several rows for one unknown item.              *)
(***************************************************************************)
WideRows == 3       \* rows of the longest resume file of SpecResume
MaxClock == 2       \* ticks of the clock in one behaviour

WideFiles == {DataFrame(ExportCols, rows) : rows \in RowSeqs(ExportCols, WideRows)}

NextResume ==
    \/ \E name \in TypedNames \cup {""} : TypeName(name)
    \/ \E resume_file \in WideFiles : LoadSession(resume_file)
    \/ Save("none", "")

SpecResume == Init /\ [][NextResume]_vars

(***************************************************************************)
(* A session over resume files whose classification cells may hold a value *)
(* outside the label set, with all four options of the radio.              *)
(***************************************************************************)
LabelClasses == {"moderate", "bogus"}

LabelFiles ==
    {DataFrame(ExportCols, <<Row(ExportCols, id, name, cls)>>) :
        id \in FileIds, name \in FileNames, cls \in LabelClasses}

NextLabels ==
    \/ \E name \in TypedNames \cup {""} : TypeName(name)
    \/ \E resume_file \in LabelFiles : LoadSession(resume_file)
    \/ Previous
    \/ \E classification \in Range(categories) : Save(classification, "")
    \/ Skip

SpecLabels == Init /\ [][NextLabels]_vars

(***************************************************************************)
(* get_results_csv: pd.DataFrame(results) has the union of the keys of the *)
(* dicts as columns and a missing value where a dict lacks a key; to_csv   *)
(* writes a header and one line per dict, a missing value as an empty      *)
(* cell.                                                                   *)
(***************************************************************************)
csv_cell(c, value) ==
    IF c \in {"coding_id", "coded_at"} THEN value
    ELSE IF value = NaN THEN "" ELSE value

get_results_csv(rs) ==
    LET columns == UNION {DOMAIN rs[i] : i \in DOMAIN rs}
    IN  [columns |-> columns,
         rows |-> [i \in DOMAIN rs |->
                      [c \in columns |->
                          IF c \in DOMAIN rs[i] THEN csv_cell(c, rs[i][c]) ELSE ""]]]

(***************************************************************************)
(* A session over resume files with only the required columns, with the    *)
(* columns of an export, and with one column more.                         *)
(***************************************************************************)
ExportHeaders ==
    {{"coding_id", "coder_name", "classification"}, ExportCols, ExportCols \cup {"extra"}}

ExportFiles ==
    {DataFrame(cols, <<Row(cols, id, "bob", "moderate")>>) :
        cols \in ExportHeaders, id \in FileIds}

NextExport ==
    \/ \E name \in TypedNames \cup {""} : TypeName(name)
    \/ \E resume_file \in ExportFiles : LoadSession(resume_file)
    \/ Previous
    \/ \E notes \in NotesInputs : Save("none", notes)
    \/ Skip

SpecExport == Init /\ [][NextExport]_vars

(***************************************************************************)
(* Helpers of the properties.  They are written from the statements, not   *)
(* from the handlers: which rows of a file name a catalog item, which row  *)
(* is the first of them, and the judgments the store holds for an item.    *)
(***************************************************************************)
CatalogIds == Range(coding_df)

LastFile == last.file[1]

WellFormed(file) == {"coding_id", "coder_name", "classification"} \subseteq file.columns

KnownRows(file) == {i \in DOMAIN file.rows : file.rows[i]["coding_id"] \in CatalogIds}

UnknownRows(file) == {i \in DOMAIN file.rows : file.rows[i]["coding_id"] \notin CatalogIds}

FirstKnownRow(file) ==
    file.rows[CHOOSE i \in KnownRows(file) : \A j \in KnownRows(file) : i <= j]

JudgmentsFor(rs, id) == SelectSeq(rs, LAMBDA r : r["coding_id"] = id)

ReportedRejected == IF shown.warning THEN shown.message.n ELSE 0

(***************************************************************************)
(* C1: the store holds at most one judgment per coding_id in every         *)
(* reachable state, also after a Load Session of a file with several rows  *)
(* for one coding_id.  The code keeps every row of the file whose id is in *)
(* the catalog, so a file with two rows for one item breaks it.            *)
(***************************************************************************)
C1_AtMostOneJudgmentPerId ==
    \A i, j \in DOMAIN results :
        results[i]["coding_id"] = results[j]["coding_id"] => i = j

(***************************************************************************)
(* C2: once locked_coder_name is set, no step changes it.  A successful    *)
(* Load Session assigns it from the file whatever it was before.           *)
(***************************************************************************)
C2_LockNeverChanges ==
    [][locked_coder_name # None => locked_coder_name' = locked_coder_name]_vars

(***************************************************************************)
(* C3: after a successful Load Session every judgment in the store has a   *)
(* coding_id of the catalog, the rows with unknown ids are gone, and the   *)
(* catalog is the one it was.                                              *)
(***************************************************************************)
C3_ResumeIsIdScoped ==
    [][last'.op = "load_ok" =>
          /\ \A i \in DOMAIN results' : results'[i]["coding_id"] \in Range(coding_df)
          /\ coding_df' = coding_df]_vars

C3_Witness ==
    /\ last.op = "load_ok"
    /\ UnknownRows(LastFile) # {}
    /\ Len(results) < Len(LastFile.rows)
    /\ results # <<>>

(***************************************************************************)
(* C4: 0 <= current_index <= len(catalog) in every reachable state of a    *)
(* session over a fixed catalog.                                           *)
(***************************************************************************)
C4_CursorBounds == 0 <= current_index /\ current_index <= Len(coding_df)

C4_Witness ==
    /\ last.op \in {"skip", "go", "load_ok"}
    /\ Len(coding_df) > 1
    /\ current_index = Len(coding_df) - 1

(***************************************************************************)
(* C5: a Load Session of a file that lacks a required column is rejected   *)
(* with an error naming exactly the missing columns, and the session state *)
(* (results, coded_ids, current_index, locked_coder_name, widget_version)  *)
(* is what it was before the click.                                        *)
(***************************************************************************)
C5_MalformedImportRejected ==
    [][(/\ last'.op \in {"load_ok", "load_rejected"}
        /\ ~WellFormed(last'.file[1])) =>
          /\ last'.op = "load_rejected"
          /\ shown'.kind = "error"
          /\ shown'.message.kind = "missing_columns"
          /\ shown'.message.missing =
                 {"coding_id", "coder_name", "classification"} \ last'.file[1].columns
          /\ UNCHANGED session]_vars

C5_Witness ==
    /\ last.op = "load_rejected"
    /\ ~WellFormed(LastFile)
    /\ Cardinality(shown.message.missing) = 2
    /\ results # <<>>
    /\ locked_coder_name # None

(***************************************************************************)
(* C6: a Load Session of a well-formed file none of whose coding_ids is in *)
(* the catalog is rejected ("no match") and the session state is what it   *)
(* was before the click.                                                   *)
(***************************************************************************)
C6_NoMatchRejected ==
    [][(/\ last'.op \in {"load_ok", "load_rejected"}
        /\ WellFormed(last'.file[1])
        /\ \A i \in DOMAIN last'.file[1].rows :
               last'.file[1].rows[i]["coding_id"] \notin Range(coding_df)) =>
          /\ last'.op = "load_rejected"
          /\ shown'.kind = "error"
          /\ shown'.message.kind = "no_match"
          /\ UNCHANGED session]_vars

C6_Witness ==
    /\ last.op = "load_rejected"
    /\ WellFormed(LastFile)
    /\ LastFile.rows # <<>>
    /\ coding_df # <<>>
    /\ results # <<>>
    /\ current_index > 0

(***************************************************************************)
(* C7: last write wins.  In a session of Saves and navigation, a Save on   *)
(* an item leaves exactly one judgment for it, carrying the classification *)
(* and notes of that Save, and every other step (navigation, a Save on     *)
(* another item) leaves the judgments of the item as they were.  By        *)
(* induction over the steps the store ends with one judgment per saved     *)
(* item, holding the values of the last Save on it.                        *)
(***************************************************************************)
C7_LastWriteWins ==
    [][\A id \in Range(coding_df) :
          IF last'.op = "save" /\ last'.id = id
          THEN /\ Len(JudgmentsFor(results', id)) = 1
               /\ JudgmentsFor(results', id)[1]["classification"] = last'.classification
               /\ JudgmentsFor(results', id)[1]["notes"] = last'.notes
          ELSE JudgmentsFor(results', id) = JudgmentsFor(results, id)]_vars

\* The item saved last was saved before: its judgment precedes the judgment
\* of an item that was appended after it.
C7_Witness ==
    /\ last.op = "save"
    /\ Len(results) = 2
    /\ results[1]["coding_id"] = last.id
    /\ results[2]["coding_id"] # last.id
    /\ results[1]["classification"] = "steep"
    /\ results[1]["notes"] = "n"

(***************************************************************************)
(* C8: a Save stamps the judgment it writes with the locked coder name:    *)
(* the name that was locked before the Save, or, when none was, the name   *)
(* this Save locks; never the content of the name input once that differs. *)
(***************************************************************************)
C8_SaveStampsLockedName ==
    [][last'.op = "save" =>
          /\ \E i \in DOMAIN results' :
                 /\ results'[i]["coding_id"] = last'.id
                 /\ results'[i]["coder_name"] = locked_coder_name'
          /\ \A i \in DOMAIN results' :
                 (i \notin DOMAIN results \/ results'[i] # results[i]) =>
                     /\ results'[i]["coder_name"] = locked_coder_name'
                     /\ locked_coder_name # None =>
                            results'[i]["coder_name"] = locked_coder_name]_vars

C8_Witness ==
    /\ last.op = "save"
    /\ name_input = "alice"
    /\ locked_coder_name = "bob"
    /\ \E i \in DOMAIN results :
           /\ results[i]["coding_id"] = last.id
           /\ results[i]["coder_name"] = "bob"
           /\ results[i]["classification"] = "steep"

(***************************************************************************)
(* C9: a successful Load Session that finds the coder name unlocked locks  *)
(* it to the coder_name of the first row of the file, in file order, whose *)
(* coding_id is in the catalog.                                            *)
(***************************************************************************)
C9_ResumeLocksFirstAcceptedName ==
    [][(last'.op = "load_ok" /\ locked_coder_name = None) =>
          locked_coder_name' = FirstKnownRow(last'.file[1])["coder_name"]]_vars

\* A three-row file whose first row is dropped and whose two rows kept name
\* different coders; the name typed is not the one locked.
C9_Witness ==
    /\ last.op = "load_ok"
    /\ last.locked = None
    /\ Len(LastFile.rows) = 3
    /\ 1 \in UnknownRows(LastFile)
    /\ LastFile.rows[1]["coder_name"] = "alice"
    /\ LastFile.rows[2]["coder_name"] = "bob"
    /\ LastFile.rows[3]["coder_name"] = "alice"
    /\ Len(results) = 2
    /\ name_input = "alice"
    /\ locked_coder_name = "bob"

(***************************************************************************)
(* C10, as stated: after a successful Load Session the rejected count      *)
(* reported equals the number of ROWS of the file whose coding_id is not   *)
(* in the catalog.                                                         *)
(***************************************************************************)
C10_RejectedCountsRows ==
    last.op = "load_ok" => ReportedRejected = Cardinality(UnknownRows(LastFile))

(***************************************************************************)
(* C10, amended: after a successful Load Session the rejected count        *)
(* reported equals the number of DISTINCT coding_id values of the file     *)
(* that are not in the catalog, and a warning is shown exactly when there  *)
(* is one.                                                                 *)
(***************************************************************************)
C10_RejectedCountsDistinctIds ==
    last.op = "load_ok" =>
        /\ ReportedRejected =
               Cardinality({LastFile.rows[i]["coding_id"] : i \in UnknownRows(LastFile)})
        /\ shown.warning <=> UnknownRows(LastFile) # {}

C10_Witness ==
    /\ last.op = "load_ok"
    /\ shown.warning
    /\ ReportedRejected = 1
    /\ Cardinality(UnknownRows(LastFile)) = 2

(***************************************************************************)
(* C11: a successful Load Session replaces the store by exactly the rows   *)
(* of the file whose coding_id is in the catalog, in file order, so that   *)
(* nothing saved before survives, and the count it reports ("Loaded n      *)
(* coded arguments") is the number of rows kept.                           *)
(***************************************************************************)
KeptRows(file) ==
    [k \in 1..Cardinality(KnownRows(file)) |->
        file.rows[CHOOSE i \in KnownRows(file) :
                      Cardinality({j \in KnownRows(file) : j <= i}) = k]]

C11_ResumeReplacesStore ==
    last.op = "load_ok" =>
        /\ results = KeptRows(LastFile)
        /\ shown.kind = "success"
        /\ shown.loaded = Len(results)

\* The first Load Session of a session in which a Save had locked the name:
\* the judgments saved (classification steep or none) are gone.
C11_Witness ==
    /\ last.op = "load_ok"
    /\ widget_version = 1
    /\ last.locked = "alice"
    /\ UnknownRows(LastFile) # {}
    /\ Len(results) = 1
    /\ results[1]["classification"] = "moderate"

(***************************************************************************)
(* C12: after a successful Load Session that leaves a catalog item without *)
(* a judgment, current_index is the smallest catalog index whose coding_id *)
(* has no judgment in the store.                                           *)
(***************************************************************************)
HasJudgment(id) == \E i \in DOMAIN results : results[i]["coding_id"] = id

Uncoded == {idx \in 0..(Len(coding_df) - 1) : ~HasJudgment(coding_df[idx + 1])}

C13_ResumeAllCodedExhausts ==
    (last.op = "load_ok" /\ Uncoded = {}) => current_index = Len(coding_df)

(***************************************************************************)
(* C13, amended: after a successful Load Session that leaves no catalog    *)
(* item without a judgment, current_index is len(catalog) - 1, the last    *)
(* item, which is displayed for review.                                    *)
(***************************************************************************)
C13_ResumeAllCodedGoesToLast ==
    (last.op = "load_ok" /\ Uncoded = {}) =>
        /\ current_index = Len(coding_df) - 1
        /\ Browsing

C13_Witness ==
    /\ last.op = "load_ok"
    /\ Uncoded = {}
    /\ Len(results) = Len(coding_df)
    /\ current_index = 1

(***************************************************************************)
(* C14: a Save on an item that is not the last is one step: the state      *)
(* after it holds the judgment of the item that was displayed, with the    *)
(* values saved, and current_index is one more than before.  No step of a  *)
(* Save stores without moving the cursor or moves it without storing.      *)
(***************************************************************************)
Stored(rs, id, cls, notes) ==
    \E i \in DOMAIN rs :
        /\ rs[i]["coding_id"] = id
        /\ rs[i]["classification"] = cls
        /\ rs[i]["notes"] = notes

C14_SaveStoresAndAdvances ==
    [][(last'.op = "save" /\ current_index < Len(coding_df) - 1) =>
          /\ last'.id = coding_df[current_index + 1]
          /\ Stored(results', last'.id, last'.classification, last'.notes)
          /\ last'.id \in coded_ids'
          /\ current_index' = current_index + 1]_vars

C14_Witness ==
    /\ last.op = "save"
    /\ last.id = 1
    /\ current_index = 1
    /\ Stored(results, 1, "steep", "n")

(***************************************************************************)
(* C15: a Save on the last item stores the judgment and leaves             *)
(* current_index where it is; no Save puts the cursor on len(catalog).     *)
(***************************************************************************)
C15_SaveOnLastStays ==
    [][last'.op = "save" =>
          /\ current_index' < Len(coding_df)
          /\ current_index = Len(coding_df) - 1 =>
                 /\ last'.id = coding_df[Len(coding_df)]
                 /\ Stored(results', last'.id, last'.classification, last'.notes)
                 /\ current_index' = current_index]_vars

C15_Witness ==
    /\ last.op = "save"
    /\ last.id = coding_df[Len(coding_df)]
    /\ current_index = Len(coding_df) - 1
    /\ Stored(results, last.id, "none", "")

(***************************************************************************)
(* C16: on the last item (current_index = len(catalog) - 1) a Skip can be  *)
(* taken and puts the cursor on len(catalog), the "all arguments have been *)
(* reviewed" state.  The Skip button is disabled on the last item, so the  *)
(* step does not exist.                                                    *)
(***************************************************************************)
C16_SkipAtLastExhausts ==
    (Browsing /\ current_index = Len(coding_df) - 1) =>
        ENABLED (Skip /\ current_index' = Len(coding_df))

(***************************************************************************)
(* C17: Previous on the first item does nothing (the button is disabled:   *)
(* no Previous step starts at current_index = 0, and none is an error);    *)
(* on any later item it can be taken, decrements current_index by exactly  *)
(* 1 and leaves the rest of the session state as it was.                   *)
(***************************************************************************)
C17_PreviousDecrementsOrNothing ==
    /\ []((Browsing /\ current_index > 0) => ENABLED Previous)
    /\ [][last'.op = "previous" =>
             /\ current_index > 0
             /\ current_index' = current_index - 1
             /\ UNCHANGED <<results, coded_ids, widget_version, locked_coder_name>>]_vars

\* Back on the first item with a judgment stored: Previous is no longer there.
C17_Witness ==
    /\ last.op = "previous"
    /\ current_index = 0
    /\ results # <<>>
    /\ ~ENABLED Previous

(***************************************************************************)
(* C18: in every reachable state every judgment in the store, saved or     *)
(* loaded, has a classification among steep, flat, moderate, none.  Load   *)
(* Session stores the classification cells of the file as they are.        *)
(***************************************************************************)
C18_ClosedLabelSet ==
    \A i \in DOMAIN results :
        results[i]["classification"] \in {"steep", "flat", "moderate", "none"}

(***************************************************************************)
(* C19: widget_version starts at 0, goes up by exactly 1 in every          *)
(* successful Load Session (a well-formed file with a row for a catalog    *)
(* item) and is left as it is by every other step: a Save, a navigation,   *)
(* a rejected Load Session.  Hence it never decreases.                     *)
(***************************************************************************)
Accepted(event) ==
    /\ event.file # <<>>
    /\ WellFormed(event.file[1])
    /\ \E i \in DOMAIN event.file[1].rows :
           event.file[1].rows[i]["coding_id"] \in Range(coding_df)

C19_GenerationCounter ==
    [][widget_version' =
           IF Accepted(last') THEN widget_version + 1 ELSE widget_version]_vars

\* After two successful loads a rejected one leaves the counter at 2.
C19_Witness ==
    /\ widget_version = 2
    /\ last.op = "load_rejected"
    /\ results # <<>>

(***************************************************************************)
(* C20: whenever the store is not empty, the export has one row per        *)
(* judgment and exactly the columns coding_id, coder_name, classification, *)
(* notes, coded_at.  The export has the columns of the dicts in the store, *)
(* which after a Load Session are the columns of the resume file.          *)
(***************************************************************************)
C20_ExportHasFiveColumns ==
    results # <<>> =>
        /\ get_results_csv(results).columns =
               {"coding_id", "coder_name", "classification", "notes", "coded_at"}
        /\ Len(get_results_csv(results).rows) = Len(results)

(***************************************************************************)
(* The download button (lines 197-209, 478-485).  Its data argument is     *)
(* evaluated when the script run renders the button, so a click serves the *)
(* export of the results as the page on display read them; the click then  *)
(* reruns the script.  The sidebar button is rendered only over a          *)
(* non-empty store, the button of the "all reviewed" branch always.        *)
(***************************************************************************)
download_rendered ==
    /\ Rendered
    /\ \/ rendered_results # <<>>
       \/ ~(current_index < total_arguments)

Download ==
    /\ download_rendered
    /\ last' = Event("download", 0, "", "", <<get_results_csv(rendered_results)>>, None)
    /\ rendered_results' = results
    /\ shown' = NoShow
    /\ UNCHANGED <<session, name_input, coding_df, now>>

\* datetime.now() (line 427) moves on between the script runs.
Tick ==
    /\ now < MaxClock
    /\ now' = now + 1
    /\ UNCHANGED <<session, name_input, coding_df, shown, rendered_results, last>>

NextDownload ==
    \/ \E name \in TypedNames \cup {""} : TypeName(name)
    \/ Previous
    \/ \E classification \in RadioInputs : Save(classification, "")
    \/ Skip
    \/ Download
    \/ Tick

SpecDownload == Init /\ [][NextDownload]_vars

\* C21: an export changes no session variable, and two exports with no Save
\* and no Load Session between them have the same rows.
C21_ExportIsPureRead ==
    [][last'.op = "download" =>
          /\ UNCHANGED session
          /\ last.op = "download" =>
                Range(last'.file[1].rows) = Range(last.file[1].rows)]_vars

(***************************************************************************)
(* A session over resume files whose coder_name cell is filled or empty:   *)
(* pd.read_csv (line 227) reads an empty cell as NaN.                      *)
(***************************************************************************)
IdentityNames == {"bob", NaN}

IdentityFiles ==
    {DataFrame(ExportCols, <<Row(ExportCols, id, name, "moderate")>>) :
        id \in FileIds, name \in IdentityNames}

NextIdentity ==
    \/ \E name \in TypedNames \cup {""} : TypeName(name)
    \/ \E resume_file \in IdentityFiles : LoadSession(resume_file)
    \/ Previous
    \/ \E classification \in RadioInputs : Save(classification, "")
    \/ Skip

SpecIdentity == Init /\ [][NextIdentity]_vars

\* The judgment a Save on id writes: the first one for id (lines 431-435).
FirstJudgment(rs, id) ==
    rs[CHOOSE i \in DOMAIN rs :
          /\ rs[i].coding_id = id
          /\ \A j \in 1..(i - 1) : rs[j].coding_id # id]

\* C22: with no coder name entered and none locked no Save is possible, and
\* the judgment a Save has written never has an empty or unset coder_name.
C22_SaveNeedsIdentity ==
    /\ (locked_coder_name = None /\ name_input = "") =>
           ~ENABLED (\E classification \in RadioInputs : Save(classification, ""))
    /\ last.op = "save" =>
           FirstJudgment(results, last.id).coder_name \notin {"", None, NaN}

C22_Witness ==
    /\ last.op = "save"
    /\ locked_coder_name = "bob"
    /\ FirstJudgment(results, last.id).coder_name = "bob"

(***************************************************************************)
(* The data source (lines 148-176): the radio and the file uploader give   *)
(* the script another coding_df; no session variable is reset.             *)
(***************************************************************************)
SourceCatalogs == Catalogs \cup {<<1>>, <<N + 1>>}

SwitchSource(df) ==
    /\ Ready
    /\ df # coding_df
    /\ coding_df' = df
    /\ shown' = NoShow
    /\ last' = Click("source")
    /\ rendered_results' = results
    /\ UNCHANGED <<session, name_input, now>>

NextSource ==
    \/ \E name \in TypedNames \cup {""} : TypeName(name)
    \/ \E df \in SourceCatalogs : SwitchSource(df)
    \/ Previous
    \/ \E classification \in RadioInputs : Save(classification, "")
    \/ Skip
    \/ \E jump_to \in 1..total_arguments : Go(jump_to)
    \/ ReturnToStart

SpecSource == Init /\ [][NextSource]_vars

\* C23: on the "all reviewed" page of a non-empty catalog Previous or a Jump
\* is available.
C23_ExhaustedCanGoBack ==
    (Rendered /\ total_arguments > 0 /\ current_index = total_arguments) =>
        \/ ENABLED Previous
        \/ \E jump_to \in 1..total_arguments : ENABLED Go(jump_to)

\* C23, amended: on the "all reviewed" page neither Previous nor a Jump is
\* available; Return to Start is, and it sets the cursor to 0 and changes
\* nothing else of the session.
C23_ExhaustedReturnsToStart ==
    /\ []((Rendered /\ ~(current_index < total_arguments)) =>
             /\ ENABLED ReturnToStart
             /\ ~ENABLED Previous
             /\ \A jump_to \in 1..total_arguments : ~ENABLED Go(jump_to))
    /\ [][last'.op = "return" /\ last' # last =>
             /\ ~(current_index < total_arguments)
             /\ current_index' = 0
             /\ UNCHANGED <<results, coded_ids, widget_version, locked_coder_name>>]_vars

C23_Witness ==
    /\ last.op = "return"
    /\ total_arguments > 0
    /\ current_index = 0
    /\ Browsing

(***************************************************************************)
(* C24: a Save on an item changes the judgment of that item only: every    *)
(* judgment for another id is the same and at the same position after the  *)
(* Save, and the store has one judgment more when the item had none and    *)
(* as many as before when it had one.                                      *)
(***************************************************************************)
C24_UpsertFrame ==
    [][last'.op = "save" =>
          /\ \A i \in DOMAIN results :
                results[i]["coding_id"] # last'.id =>
                    i \in DOMAIN results' /\ results'[i] = results[i]
          /\ Len(results') =
                IF \E i \in DOMAIN results : results[i]["coding_id"] = last'.id
                THEN Len(results) ELSE Len(results) + 1]_vars

\* The item saved last had a judgment before the judgment of another item,
\* which came from a resume file, was stored.
C24_Witness ==
    /\ last.op = "save"
    /\ Len(results) = 2
    /\ results[1]["coding_id"] = last.id
    /\ results[1]["classification"] = "none"
    /\ results[2]["coding_id"] # last.id
    /\ results[2]["classification"] = "moderate"

(***************************************************************************)
(* C25: in every reachable state coded_ids is the set of the coding_id     *)
(* values of the judgments in results.                                     *)
(***************************************************************************)
C25_CodedIdsMirrorStore ==
    coded_ids = {results[i]["coding_id"] : i \in DOMAIN results}

\* A Save after a Load Session of a file with two rows for one item.
C25_Witness ==
    /\ last.op = "save"
    /\ Len(results) = 3
    /\ Cardinality(coded_ids) = 2

(***************************************************************************)
(* C26: in every reachable state every judgment in the store carries the   *)
(* same coder_name, the locked one.                                        *)
(***************************************************************************)
C26_SingleCoder ==
    \A i \in DOMAIN results : results[i]["coder_name"] = locked_coder_name

(***************************************************************************)
(* C27: Previous, Skip, Jump/Go and Return to Start leave results,         *)
(* coded_ids, widget_version and locked_coder_name unchanged, and a Jump   *)
(* to item k sets current_index to k - 1.                                  *)
(***************************************************************************)
C27_NavigationFrame ==
    [][/\ last'.op \in {"previous", "skip", "go", "return"} =>
              UNCHANGED <<results, coded_ids, widget_version, locked_coder_name>>
       /\ \A k \in 1..total_arguments :
              Go(k) => last'.op = "go" /\ current_index' = k - 1]_vars

\* A Jump to the second item over a store with a judgment.
C27_Witness ==
    /\ last.op = "go"
    /\ current_index = 1
    /\ results # <<>>

(***************************************************************************)
(* C28: the session fits the active catalog in every reachable state, also *)
(* after a switch of the data source: current_index is at most the length  *)
(* of the catalog, every id in coded_ids is an id of the catalog, and      *)
(* there are no more coded ids than items.                                 *)
(***************************************************************************)
C28_SessionFitsCatalog ==
    /\ current_index <= total_arguments
    /\ coded_ids \subseteq Range(coding_df)
    /\ Cardinality(coded_ids) <= total_arguments

(***************************************************************************)
(* pd.read_csv (line 227) with its defaults: a cell that is empty or holds *)
(* one of the default missing-value markers ("NA" among them) is read as   *)
(* NaN, every other cell as its value.                                     *)
(***************************************************************************)
na_values == {"", "NA"}

read_csv(file) ==
    [columns |-> file.columns,
     rows |-> [i \in DOMAIN file.rows |->
                  [c \in file.columns |->
                      IF ToString(file.rows[i][c]) \in {ToString(v) : v \in na_values}
                      THEN NaN ELSE file.rows[i][c]]]]

(***************************************************************************)
(* A session in which the file uploaded to the Resume Session section is   *)
(* the export downloaded last, and in which a coder may go by "NA".        *)
(***************************************************************************)
RoundTripNames == {"alice", "NA"}

ResumeExport ==
    /\ last.op = "download"
    /\ LoadSession(read_csv(last.file[1]))

NextRoundTrip ==
    \/ \E name \in RoundTripNames \cup {""} : TypeName(name)
    \/ Previous
    \/ \E classification \in RadioInputs : Save(classification, "")
    \/ Skip
    \/ Download
    \/ ResumeExport

SpecRoundTrip == Init /\ [][NextRoundTrip]_vars

\* The judgments of a store by item: coding_id, coder_name, classification.
Judgments(rs) ==
    {<<rs[i]["coding_id"], rs[i]["coder_name"], rs[i]["classification"]>> :
        i \in DOMAIN rs}

(***************************************************************************)
(* C29: a Load Session of the export of a non-empty store, against the     *)
(* same catalog, gives a store with the same judgments (coding_id,         *)
(* coder_name, classification), leaves locked_coder_name as it is and puts *)
(* the cursor on the first item without a judgment.                        *)
(***************************************************************************)
C29_ExportResumeRoundTrip ==
    [][(last.op = "download" /\ results # <<>>
            /\ last'.op \in {"load_ok", "load_rejected", "load_error"}) =>
          /\ last'.op = "load_ok"
          /\ Judgments(results') = Judgments(results)
          /\ locked_coder_name' = locked_coder_name
          /\ \A i \in DOMAIN coding_df :
                (/\ coding_df[i] \notin coded_ids'
                 /\ \A j \in 1..(i - 1) : coding_df[j] \in coded_ids')
                    => current_index' = i - 1]_vars

(***************************************************************************)
(* A session in which, once a coder name is typed, Save & Continue is the  *)
(* only button clicked, and it keeps being clicked: Save & Continue is     *)
(* rendered in every script run of the branch of line 272, so it is weakly *)
(* fair.                                                                   *)
(***************************************************************************)
NextProgress ==
    \/ \E name \in TypedNames : TypeName(name)
    \/ \E classification \in RadioInputs, notes \in NotesInputs : Save(classification, notes)
    \/ Tick

SpecProgress ==
    /\ Init
    /\ [][NextProgress]_vars
    /\ WF_vars(\E name \in TypedNames : TypeName(name))
    /\ WF_vars(\E classification \in RadioInputs, notes \in NotesInputs :
                  Save(classification, notes))

AllCoded ==
    /\ coded_ids = Range(coding_df)
    /\ current_index = total_arguments - 1

(***************************************************************************)
(* C30: over a non-empty catalog, when Save is the only action taken and   *)
(* keeps being taken, eventually every item has a judgment and the cursor  *)
(* is on the last item, for good; a further Save then changes the judgment *)
(* of the last item only.                                                  *)
(***************************************************************************)
C30_SaveOnlyProgress ==
    /\ total_arguments > 0 => <>[]AllCoded
    /\ [][(AllCoded /\ total_arguments > 0) =>
             /\ Len(results') = Len(results)
             /\ \A i \in DOMAIN results :
                   results[i]["coding_id"] # coding_df[total_arguments] =>
                       results'[i] = results[i]]_vars

\* Every item is coded, and the last one was saved again at a later time.
C30_Witness ==
    /\ total_arguments = N
    /\ AllCoded
    /\ last.op = "save"
    /\ last.id = coding_df[N]
    /\ Len(results) = N
    /\ results[N]["coded_at"] > results[1]["coded_at"]

====
